---------------------------- MODULE Spec2Model ----------------------------
(***************************************************************************)
(* A model of drivers/pwm/pwm-imx27.c: the i.MX27 PWM driver's probe,      *)
(* get_state and apply operations over the controller's registers (PWMCR,  *)
(* PWMSR, PWMSAR and its FIFO, PWMPR, PWMCNR), the clock enable count the  *)
(* driver holds and the cached duty value.                                 *)
(*                                                                         *)
(* Word sizes.  TLC evaluates integers in 32 bits.  The u64 values of the  *)
(* code (state->period, state->duty_cycle, c, the tmp of get_state) are    *)
(* sequences of four 16-bit limbs, least significant first, with the       *)
(* arithmetic of the code modulo 2^64 (U64Mul, U64Add, U64Div).  unsigned  *)
(* long has BITS_PER_LONG bits: the assignments of c to period_cycles and  *)
(* duty_cycles (lines 216, 223) and the tmp of line 252 are cut to that    *)
(* width.  Cycle counts and register values are integers; the inputs drawn *)
(* below keep them under 2^31, and an evaluation that left that range      *)
(* would stop TLC with an overflow error rather than yield a value.        *)
(***************************************************************************)
EXTENDS Integers, Naturals, Sequences, FiniteSets, TLC

(***************************************************************************)
(* Bounds of the model.                                                    *)
(***************************************************************************)
\* number of apply / get_state calls in one behaviour
MaxOps == 2

(***************************************************************************)
(* Register layout, pwm-imx27.c lines 25-81.                               *)
(***************************************************************************)
RECURSIVE Pow2(_)
Pow2(n) == IF n = 0 THEN 1 ELSE 2 * Pow2(n - 1)

\* BIT(n)
BIT(n) == Pow2(n)

\* FIELD_GET(GENMASK(hi, lo), x)
FIELD_GET(hi, lo, x) == (x \div Pow2(lo)) % Pow2(hi - lo + 1)

\* FIELD_PREP(GENMASK(hi, lo), v): the value shifted into place and masked
FIELD_PREP(hi, lo, v) == (v % Pow2(hi - lo + 1)) * Pow2(lo)

\* x & BIT(n) != 0
TestBit(x, n) == (x \div Pow2(n)) % 2 = 1

MX3_PWMCR_STOPEN == BIT(25)
MX3_PWMCR_DOZEN == BIT(24)
MX3_PWMCR_WAITEN == BIT(23)
MX3_PWMCR_DBGEN == BIT(22)

MX3_PWMCR_POUTC_NORMAL == 0
MX3_PWMCR_POUTC_INVERTED == 1
MX3_PWMCR_POUTC_OFF == 2

MX3_PWMCR_CLKSRC_IPG_HIGH == 2

MX3_PWMCR_SWR == BIT(3)
MX3_PWMCR_EN == BIT(0)

MX3_PWMSR_FIFOAV_2WORDS == 2
MX3_PWMSR_FIFOAV_4WORDS == 4

MX3_PWM_SWR_LOOP == 5
MX3_PWMPR_MAX == 65534

NSEC_PER_SEC == 1000000000

\* FIELD_GET(MX3_PWMCR_POUTC, x), GENMASK(19, 18)
POUTC_GET(x) == FIELD_GET(19, 18, x)

\* FIELD_PREP(MX3_PWMCR_POUTC, v)
POUTC_PREP(v) == FIELD_PREP(19, 18, v)

\* FIELD_PREP(MX3_PWMCR_CLKSRC, v), GENMASK(17, 16)
CLKSRC_PREP(v) == FIELD_PREP(17, 16, v)

\* MX3_PWMCR_PRESCALER is GENMASK(15, 4); the field holds prescaler - 1
MX3_PWMCR_PRESCALER_SET(x) == FIELD_PREP(15, 4, x - 1)

MX3_PWMCR_PRESCALER_GET(x) == FIELD_GET(15, 4, x) + 1

\* cr & MX3_PWMCR_EN
CR_EN(cr) == TestBit(cr, 0)

\* cr & MX3_PWMCR_SWR
CR_SWR(cr) == TestBit(cr, 3)

PWM_POLARITY_NORMAL == "normal"
PWM_POLARITY_INVERSED == "inversed"

(***************************************************************************)
(* 64-bit arithmetic.                                                      *)
(***************************************************************************)
\* From <<q, r>> with x = q * d + r to the same for 2 * x + y, where 0 <= y < d
\* and d <= 2^30: no intermediate exceeds 2^31.
QRDoubleAdd(h, y, d) ==
    <<2 * h[1] + ((2 * h[2]) \div d) + ((((2 * h[2]) % d) + y) \div d),
      (((2 * h[2]) % d) + y) % d>>

\* <<q, r>> with a * b = q * d + r and 0 <= r < d, for a < d <= 2^30 and
\* b < 2^16, bit by bit over b
RECURSIVE MulDivQR16(_, _, _)
MulDivQR16(a, b, d) ==
    IF b = 0 THEN <<0, 0>>
    ELSE QRDoubleAdd(MulDivQR16(a, b \div 2, d),
                     IF b % 2 = 1 THEN a ELSE 0, d)

\* <<q, r>> of x * 2^n from that of x
RECURSIVE QRShift(_, _, _)
QRShift(h, n, d) == IF n = 0 THEN h ELSE QRShift(QRDoubleAdd(h, 0, d), n - 1, d)

\* <<q, r>> with a * b = q * d + r and 0 <= r < d, for 0 < d <= 2^30 and
\* a, b < 2^31: a * b = (a \div d) * b * d + (a % d) * b, and b is taken in
\* two halves of 16 bits
MulDivQR(a, b, d) ==
    LET hi == QRShift(MulDivQR16(a % d, b \div 65536, d), 16, d)
        lo == MulDivQR16(a % d, b % 65536, d)
    IN <<(a \div d) * b + hi[1] + lo[1] + ((hi[2] + lo[2]) \div d),
         (hi[2] + lo[2]) % d>>

\* c = a * b; do_div(c, d); c
MulDiv(a, b, d) == MulDivQR(a, b, d)[1]

\* DIV_ROUND_UP_ULL(a * b, d) = (a * b + d - 1) / d
MulDivRoundUp(a, b, d) ==
    LET qr == MulDivQR(a, b, d) IN qr[1] + (IF qr[2] = 0 THEN 0 ELSE 1)

\* DIV_ROUND_UP_ULL(x, d) for a value that fits
DivRoundUp(x, d) == (x + d - 1) \div d

(***************************************************************************)
(* u64 values: four limbs of 16 bits, least significant first.             *)
(***************************************************************************)
\* the u64 of a natural number below 2^31
U64(n) == <<n % 65536, n \div 65536, 0, 0>>

\* the number a u64 holds, where that is below 2^31
ToInt(a) == a[1] + 65536 * (a[2] + 65536 * (a[3] + 65536 * a[4]))

\* <<low limb, high limb>> of the product of two limbs
LimbMul(x, y) ==
    LET p1 == x * (y \div 256)
        t  == (p1 % 256) * 256 + x * (y % 256)
    IN <<t % 65536, p1 \div 256 + t \div 65536>>

\* the limbs of four column sums, carries propagated, the carry out of the
\* top limb dropped
U64Carry(c1, c2, c3, c4) ==
    LET l2 == c2 + c1 \div 65536
        l3 == c3 + l2 \div 65536
        l4 == c4 + l3 \div 65536
    IN <<c1 % 65536, l2 % 65536, l3 % 65536, l4 % 65536>>

\* a + b in u64
U64Add(a, b) == U64Carry(a[1] + b[1], a[2] + b[2], a[3] + b[3], a[4] + b[4])

\* a - 1 in u64
U64Dec(a) == U64Add(a, <<65535, 65535, 65535, 65535>>)

\* what the limb products a[i] * b[j] contribute to limb k, for i up to n
RECURSIVE MulColumn(_, _, _, _)
MulColumn(a, b, k, n) ==
    IF n = 0 THEN 0
    ELSE LimbMul(a[n], b[k + 1 - n])[1]
         + (IF n < k THEN LimbMul(a[n], b[k - n])[2] ELSE 0)
         + MulColumn(a, b, k, n - 1)

\* a * b in u64: the low 64 bits of the product
U64Mul(a, b) ==
    U64Carry(MulColumn(a, b, 1, 1), MulColumn(a, b, 2, 2),
             MulColumn(a, b, 3, 3), MulColumn(a, b, 4, 4))

\* one step of the long division by d <= 2^30: <<q, r>> of r0 * 2^16 + limb
\* for r0 < d
DivStep(r0, limb, d) ==
    LET h == QRShift(<<0, r0>>, 16, d)
    IN <<h[1] + (h[2] + limb) \div d, (h[2] + limb) % d>>

\* do_div(a, d): the quotient of the u64 a by 0 < d <= 2^30
U64Div(a, d) ==
    LET s4 == DivStep(0, a[4], d)
        s3 == DivStep(s4[2], a[3], d)
        s2 == DivStep(s3[2], a[2], d)
        s1 == DivStep(s2[2], a[1], d)
        q  == <<s4[1], s3[1], s2[1], s1[1]>>
    IN <<q[4], q[3], q[2], q[1]>>

\* DIV_ROUND_UP_ULL(a, d) = (a + d - 1) / d in u64
U64DivRoundUp(a, d) == U64Div(U64Add(a, U64(d - 1)), d)

\* a >> 16
U64Shr16(a) == <<a[2], a[3], a[4], 0>>

\* a u64 assigned to an unsigned long of the given width
ToUnsignedLong(a, bits) == IF bits = 32 THEN <<a[1], a[2], 0, 0>> ELSE a

\* a < b
U64Lt(a, b) ==
    \/ a[4] < b[4]
    \/ a[4] = b[4] /\ a[3] < b[3]
    \/ a[4] = b[4] /\ a[3] = b[3] /\ a[2] < b[2]
    \/ a[4] = b[4] /\ a[3] = b[3] /\ a[2] = b[2] /\ a[1] < b[1]

\* a <= b
U64Le(a, b) == ~U64Lt(b, a)

\* sec seconds and nsec nanoseconds, in nanoseconds
Ns(sec, nsec) == U64Add(U64Mul(U64(sec), U64(NSEC_PER_SEC)), U64(nsec))


(***************************************************************************)
(* The rate conversion of pwm_imx27_apply, lines 212-233.                  *)
(***************************************************************************)
\* c = clkrate * ns; do_div(c, NSEC_PER_SEC) (lines 213-214, 221-222): the
\* product wraps at 2^64
CyclesIn(clk, ns) == U64Div(U64Mul(U64(clk), ns), NSEC_PER_SEC)

\* period_cycles = c, duty_cycles = c (lines 216, 223): the assignment to an
\* unsigned long keeps the low BITS_PER_LONG bits of c
CyclesOf(clk, ns, bits) == ToUnsignedLong(CyclesIn(clk, ns), bits)

\* PrescaleOf rounding the quotient up instead of adding one
PrescaleOfCeil(raw) ==
    IF U64Le(raw, U64(65536)) THEN 1
    ELSE ToInt(U64Shr16(U64Add(raw, U64(65535))))

\* prescale = period_cycles / 0x10000 + 1
PrescaleOf(raw) == ToInt(U64Shr16(raw)) + 1

\* if (period_cycles > 2) period_cycles -= 2; else period_cycles = 0
PeriodOffset(pc) == IF pc > 2 THEN pc - 2 ELSE 0

\* the three values the conversion leaves in prescale, period_cycles, duty_cycles
Convert(clk, period_ns, duty_ns, bits) ==
    LET raw      == CyclesOf(clk, period_ns, bits)
        prescale == PrescaleOf(raw)
    IN [prescale      |-> prescale,
        period_cycles |-> PeriodOffset(ToInt(U64Div(raw, prescale))),
        duty_cycles   |-> ToInt(U64Div(CyclesOf(clk, duty_ns, bits), prescale))]

\* val = val >= MX3_PWMPR_MAX ? MX3_PWMPR_MAX : val
ClampPeriod(val) == IF val >= MX3_PWMPR_MAX THEN MX3_PWMPR_MAX ELSE val

\* the low 32 bits of a * b, as <<high half, low half>> of 16 bits each
MulLow32(a, b) ==
    LET p00 == MulDivQR(a % 65536, b % 65536, 65536)
    IN <<(p00[1] + MulDivQR(a % 65536, b \div 65536, 65536)[2]
                 + MulDivQR(a \div 65536, b % 65536, 65536)[2]) % 65536,
         p00[2]>>

\* DIV_ROUND_UP_ULL of the 32-bit value w = <<high half, low half>> by d
DivRoundUp32(w, d) ==
    LET qr == MulDivQR(w[1], 65536, d)
    IN qr[1] + ((qr[2] + w[2]) \div d)
             + (IF (qr[2] + w[2]) % d = 0 THEN 0 ELSE 1)

\* period_us of lines 252-254, from the period and control registers as read.
\* tmp is an unsigned long (line 203): where that has 32 bits the product of
\* line 252 is cut to its low 32 bits before the division of line 253.
PeriodUs(val, cr, clk, bits) ==
    IF bits = 64
      THEN DivRoundUp(MulDivRoundUp(NSEC_PER_SEC,
                                    (val + 2) * MX3_PWMCR_PRESCALER_GET(cr), clk),
                      1000)
      ELSE DivRoundUp(DivRoundUp32(MulLow32(NSEC_PER_SEC,
                                            (val + 2) * MX3_PWMCR_PRESCALER_GET(cr)),
                                   clk),
                      1000)

\* c = clkrate * 1500; do_div(c, NSEC_PER_SEC): the safety margin in clock cycles
MarginCycles(clk) == MulDiv(clk, 1500, NSEC_PER_SEC)

\* DutyDecreases without the test of the enable bit
DutyDecreasesAnyState(duty_cycles, cached, cr) == duty_cycles < cached

\* DutyDecreases with <= for <
DutyNotIncreases(duty_cycles, cached, cr) == duty_cycles <= cached /\ CR_EN(cr)

\* duty_cycles < imx->duty_cycle && (cr & MX3_PWMCR_EN), line 321
DutyDecreases(duty_cycles, cached, cr) == duty_cycles < cached /\ CR_EN(cr)

\* period_us < 2, line 322
FastPeriod(period_us) == period_us < 2

\* val < MX3_PWMSR_FIFOAV_2WORDS, line 327
FifoNearlyEmpty(val) == val < MX3_PWMSR_FIFOAV_2WORDS

\* the test of lines 333-334
InErrataWindow(val, c, duty_cycles, cached, period_cycles) ==
    \/ (val + c >= duty_cycles /\ val < cached)
    \/ val + c >= period_cycles

\* the control word of lines 349-359
ControlWord(prescale, polarity, enabled) ==
    MX3_PWMCR_PRESCALER_SET(prescale)
    + MX3_PWMCR_STOPEN + MX3_PWMCR_DOZEN + MX3_PWMCR_WAITEN
    + CLKSRC_PREP(MX3_PWMCR_CLKSRC_IPG_HIGH)
    + MX3_PWMCR_DBGEN
    + (IF polarity = PWM_POLARITY_INVERSED
         THEN POUTC_PREP(MX3_PWMCR_POUTC_INVERTED) ELSE 0)
    + (IF enabled THEN MX3_PWMCR_EN ELSE 0)

(***************************************************************************)
(* The read-back conversion of pwm_imx27_get_state, lines 116-153.         *)
(***************************************************************************)
\* DecodePolarity with a default branch that assigns
DecodePolarityDefault(cr, prior) ==
    IF POUTC_GET(cr) = MX3_PWMCR_POUTC_INVERTED THEN PWM_POLARITY_INVERSED
    ELSE PWM_POLARITY_NORMAL

\* state->polarity after the switch of lines 123-132; prior is the caller's value
DecodePolarity(cr, prior) ==
    IF POUTC_GET(cr) = MX3_PWMCR_POUTC_NORMAL THEN PWM_POLARITY_NORMAL
    ELSE IF POUTC_GET(cr) = MX3_PWMCR_POUTC_INVERTED THEN PWM_POLARITY_INVERSED
    ELSE prior

\* whether the default branch of the switch warns
PolarityWarns(cr) ==
    POUTC_GET(cr) # MX3_PWMCR_POUTC_NORMAL /\ POUTC_GET(cr) # MX3_PWMCR_POUTC_INVERTED

\* state->period, lines 134-141
ReadPeriodNs(cr, pr, clk) ==
    U64DivRoundUp(U64Mul(U64Mul(U64(NSEC_PER_SEC), U64(ClampPeriod(pr) + 2)),
                         U64(MX3_PWMCR_PRESCALER_GET(cr))),
                  clk)

\* ReadsSampleRegister without the test of state->enabled
ReadsSampleRegisterAlways(enabled) == TRUE

\* whether get_state reads PWMSAR (line 147) rather than the cache
ReadsSampleRegister(enabled) == enabled

\* state->duty_cycle, lines 152-153, from val as chosen by lines 147-150
ReadDutyNs(cr, val, clk) ==
    U64DivRoundUp(U64Mul(U64Mul(U64(NSEC_PER_SEC), U64(val)),
                         U64(MX3_PWMCR_PRESCALER_GET(cr))),
                  clk)


(***************************************************************************)
(* State.                                                                  *)
(***************************************************************************)
VARIABLES
    clkrate,      \* clk_get_rate(imx->clks[PWM_IMX27_PER].clk)
    BITS_PER_LONG, \* width of unsigned long in the build, 32 or 64
    PWMCR,        \* control register
    PWMPR,        \* period register
    fifo,         \* the words queued behind the sample register
    sar,          \* the sample in use, which a read of PWMSAR returns
    clk_cnt,      \* clock enables the driver holds (prepare_enable - disable_unprepare)
    duty_cycle,   \* imx->duty_cycle, the cached duty
    pwm_state,    \* pwm->state, kept by the PWM core
    pc,           \* where the driver is
    op,           \* the operation in progress, or the last one completed
    loc,          \* the locals of pwm_imx27_apply
    ret,          \* the value the last completed operation returned
    acc,          \* the register accesses of the operation, in program order
    warn,         \* the dev_warn()s of the operation
    entry,        \* registers, cache and clock count when the operation was entered
    gs,           \* the struct pwm_state that get_state fills
    irq_off,      \* between local_irq_save and local_irq_restore
    glitch,       \* a lowered sample took effect behind the counter in this apply
    ops           \* operations called so far

vars == <<clkrate, BITS_PER_LONG, PWMCR, PWMPR, fifo, sar, clk_cnt, duty_cycle, pwm_state,
          pc, op, loc, ret, acc, warn, entry, gs, irq_off, glitch, ops>>

hw == <<PWMCR, PWMPR, fifo, sar>>

EIO == 0 - 5

\* the error of a failed allocation
ENOMEM == 0 - 12

\* one entry of the access log
Access(k, reg, v, clk, irq) == [k |-> k, reg |-> reg, v |-> v, clk |-> clk, irq |-> irq]

Snapshot == [PWMCR |-> PWMCR, PWMPR |-> PWMPR, fifo |-> fifo, sar |-> sar,
             duty_cycle |-> duty_cycle, clk_cnt |-> clk_cnt,
             pwm_state |-> pwm_state,
             prev_op |-> op, prev_ret |-> ret]

NoLocals == [period |-> U64(0), duty |-> U64(0), polarity |-> PWM_POLARITY_NORMAL,
             enabled |-> FALSE, prescale |-> 1, period_cycles |-> 0,
             duty_cycles |-> 0, val |-> 0, cr |-> 0, period_us |-> 0, c |-> 0,
             wait_count |-> 0, polls |-> 0, fifoav |-> 0, cnt |-> 0 - 1,
             pos |-> 0 - 1]

NoState == [enabled |-> FALSE, polarity |-> PWM_POLARITY_NORMAL,
            period |-> U64(0), duty_cycle |-> U64(0),
            prior |-> PWM_POLARITY_NORMAL]

\* a struct pwm_state as the core passes it to apply; period and duty are u64
PwmState(p, d, pol, en) == [period |-> p, duty |-> d, polarity |-> pol, enabled |-> en]

\* the same from a period and a duty below 2^31 ns
Config(p, d, pol, en) == PwmState(U64(p), U64(d), pol, en)

NoConfig == Config(0, 0, PWM_POLARITY_NORMAL, FALSE)

(***************************************************************************)
(* The controller, as the driver's comments describe it (lines 139,        *)
(* 143-146, 236-237, 256-313) and as its register accesses assume.         *)
(***************************************************************************)
\* the FIFO is four words deep (MX3_PWMSR_FIFOAV_4WORDS)
FifoDepth == MX3_PWMSR_FIFOAV_4WORDS

\* A write of PWMSAR.  The head of a FIFO that holds words is the sample in
\* use.  Into an empty FIFO the value is applied directly, even though the
\* period has not expired (ERR051198), and it occupies a slot until that period
\* ends; otherwise it is queued behind the words there; a write into a full
\* FIFO is lost.
HwSampleWrite(f, s, v) ==
    IF Len(f) = 0 THEN [fifo |-> <<v % 65536>>, sar |-> v % 65536]
    ELSE IF Len(f) < FifoDepth THEN [fifo |-> Append(f, v % 65536), sar |-> s]
    ELSE [fifo |-> f, sar |-> s]

\* The period rolls over: the word in use leaves the FIFO and the word queued
\* behind it, if any, becomes the sample in use (lines 292-294: after the old
\* and the new value are written, the new one takes effect at the next period).
HwPop(f, s) ==
    IF Len(f) = 0 THEN [fifo |-> f, sar |-> s]
    ELSE [fifo |-> Tail(f),
          sar  |-> IF Len(f) = 1 THEN s ELSE Head(Tail(f))]

\* n periods roll over
RECURSIVE HwPopN(_, _, _)
HwPopN(f, s, n) ==
    IF n = 0 THEN [fifo |-> f, sar |-> s]
    ELSE HwPopN(HwPop(f, s).fifo, HwPop(f, s).sar, n - 1)

\* counter ticks in one period: PWMOUT = PWMCLK / (PWMPR + 2)
HwPeriodTicks(pr) == ClampPeriod(pr) + 2

\* The controller d ticks after the counter read cnt: at most one rollover,
\* since the periods considered are longer than the margin.
HwAfter(f, s, pr, cnt, d) ==
    IF cnt + d >= HwPeriodTicks(pr)
      THEN [fifo |-> HwPop(f, s).fifo, sar |-> HwPop(f, s).sar,
            pos |-> cnt + d - HwPeriodTicks(pr)]
      ELSE [fifo |-> f, sar |-> s, pos |-> cnt + d]

\* what the bootloader may have left in the controller
HwBoot ==
    { [cr |-> 0, pr |-> MX3_PWMPR_MAX, sar |-> 0, fifo |-> <<>>],
      [cr |-> ControlWord(1, PWM_POLARITY_NORMAL, TRUE)
                + POUTC_PREP(MX3_PWMCR_POUTC_OFF),
       pr |-> 5000, sar |-> 1000, fifo |-> <<1000, 1000, 1000, 1000>>] }

(***************************************************************************)
(* The clock framework and the PWM core, which the driver calls and is     *)
(* called by.                                                              *)
(***************************************************************************)
\* clk_bulk_prepare_enable succeeded: one more enable held
ClkEnabled(n) == n + 1

\* clk_bulk_disable_unprepare
ClkDisabled(n) == n - 1

\* pwm->state once the core has read the state back when the PWM is requested
CoreRequestState(st) ==
    [period |-> st.period, duty |-> st.duty_cycle, polarity |-> st.polarity,
     enabled |-> st.enabled]

\* pwm->state after a successful apply: the core stores *state
CoreCommitState(cfg) == cfg

(***************************************************************************)
(* Inputs.                                                                 *)
(***************************************************************************)
ClkRates == {66000000}

\* the widths of unsigned long the driver is built for (32-bit and 64-bit i.MX)
LongWidths == {32, 64}

\* The states the core passes to apply (duty_cycle <= period).  At 66 MHz
\* 1000 ns is 66 cycles (a period below 2 us), 75788 ns is 5002 and 909122 ns
\* is 60002; 304 ns is 20 cycles, 3031 ns is 200 and 15152 ns is 1000.
Configs ==
    { Config(75788, 15152, PWM_POLARITY_NORMAL, TRUE),
      Config(75788, 3031, PWM_POLARITY_NORMAL, TRUE),
      Config(75788, 304, PWM_POLARITY_NORMAL, FALSE),
      Config(75788, 15152, PWM_POLARITY_NORMAL, FALSE),
      Config(909122, 304, PWM_POLARITY_NORMAL, TRUE),
      Config(1000, 1000, PWM_POLARITY_INVERSED, TRUE),
      Config(1000, 304, PWM_POLARITY_INVERSED, TRUE),
      Config(1000, 304, PWM_POLARITY_INVERSED, FALSE) }

Init ==
    /\ clkrate \in ClkRates
    /\ BITS_PER_LONG \in LongWidths
    /\ \E b \in HwBoot :
          /\ PWMCR = b.cr
          /\ PWMPR = b.pr
          /\ fifo = b.fifo
          /\ sar = b.sar
    /\ clk_cnt = 0
    /\ duty_cycle = 0
    /\ pwm_state = NoConfig
    /\ pc = "unbound"
    /\ op = "none"
    /\ loc = NoLocals
    /\ ret = 0
    /\ acc = <<>>
    /\ warn = {}
    /\ entry = [PWMCR |-> 0, PWMPR |-> 0, fifo |-> <<>>, sar |-> 0,
                duty_cycle |-> 0, clk_cnt |-> 0, pwm_state |-> NoConfig,
                prev_op |-> "none", prev_ret |-> 0]
    /\ gs = NoState
    /\ irq_off = FALSE
    /\ glitch = FALSE
    /\ ops = 0


(***************************************************************************)
(* pwm_imx27_get_state, lines 104-158.                                     *)
(***************************************************************************)
\* clk_bulk_prepare_enable fails: return ret
pwm_imx27_get_state_fail ==
    /\ pc = "idle" /\ ops < MaxOps
    /\ \E prior \in {PWM_POLARITY_NORMAL, PWM_POLARITY_INVERSED} :
          gs' = [NoState EXCEPT !.prior = prior, !.polarity = prior]
    /\ op' = "get_state"
    /\ ops' = ops + 1
    /\ entry' = Snapshot
    /\ acc' = <<>>
    /\ warn' = {}
    /\ ret' = EIO
    /\ UNCHANGED <<clkrate, BITS_PER_LONG, hw, clk_cnt, duty_cycle, pwm_state, pc, loc,
                   irq_off, glitch>>

\* the value the duty is derived from, lines 147-150
GetStateDutyValue(enabled) ==
    IF ReadsSampleRegister(enabled) THEN sar ELSE duty_cycle

\* the register reads of a successful get_state, in order
GetStateReads(enabled, clk) ==
    <<Access("r", "PWMCR", PWMCR, clk, FALSE),
      Access("r", "PWMPR", PWMPR, clk, FALSE)>>
    \o (IF ReadsSampleRegister(enabled)
          THEN <<Access("r", "PWMSAR", sar, clk, FALSE)>> ELSE <<>>)

\* the struct pwm_state a successful get_state leaves, lines 116-153
GetStateResult(prior) ==
    [enabled    |-> CR_EN(PWMCR),
     polarity   |-> DecodePolarity(PWMCR, prior),
     period     |-> ReadPeriodNs(PWMCR, PWMPR, clkrate),
     duty_cycle |-> ReadDutyNs(PWMCR, GetStateDutyValue(CR_EN(PWMCR)), clkrate),
     prior      |-> prior]

pwm_imx27_get_state ==
    /\ pc = "idle" /\ ops < MaxOps
    /\ \E prior \in {PWM_POLARITY_NORMAL, PWM_POLARITY_INVERSED} :
          gs' = GetStateResult(prior)
    /\ op' = "get_state"
    /\ ops' = ops + 1
    /\ entry' = Snapshot
    /\ acc' = GetStateReads(CR_EN(PWMCR), ClkEnabled(clk_cnt))
    /\ warn' = IF PolarityWarns(PWMCR) THEN {"polarity"} ELSE {}
    /\ clk_cnt' = ClkDisabled(ClkEnabled(clk_cnt))
    /\ ret' = 0
    /\ UNCHANGED <<clkrate, BITS_PER_LONG, hw, duty_cycle, pwm_state, pc, loc, irq_off, glitch>>

(***************************************************************************)
(* pwm_imx27_probe, lines 380-419.                                         *)
(***************************************************************************)
\* an allocation, clock lookup, mapping or clock enable fails: no register access
pwm_imx27_probe_fail ==
    /\ pc = "unbound"
    /\ pc' = "failed"
    /\ op' = "probe"
    /\ ret' = EIO
    /\ UNCHANGED <<clkrate, BITS_PER_LONG, hw, clk_cnt, duty_cycle, pwm_state, loc, acc, warn,
                   entry, gs, irq_off, glitch, ops>>

\* pwm_imx27_probe without the disable of line 416
pwm_imx27_probe_keep_clk ==
    /\ pc = "unbound"
    /\ \E r \in {0, ENOMEM} :
          /\ ret' = r
          /\ pc' = IF r = 0 THEN "probed" ELSE "failed"
    /\ op' = "probe"
    /\ entry' = Snapshot
    /\ acc' = <<Access("r", "PWMCR", PWMCR, ClkEnabled(clk_cnt), FALSE)>>
    /\ clk_cnt' = ClkEnabled(clk_cnt)
    /\ UNCHANGED <<clkrate, BITS_PER_LONG, hw, duty_cycle, pwm_state, loc, warn, gs,
                   irq_off, glitch, ops>>

\* lines 409-418: keep clks on if pwm is running; the value returned is the
\* one of devm_pwmchip_add, which can fail after the register was read
pwm_imx27_probe ==
    /\ pc = "unbound"
    /\ \E r \in {0, ENOMEM} :
          /\ ret' = r
          /\ pc' = IF r = 0 THEN "probed" ELSE "failed"
    /\ op' = "probe"
    /\ entry' = Snapshot
    /\ acc' = <<Access("r", "PWMCR", PWMCR, ClkEnabled(clk_cnt), FALSE)>>
    /\ clk_cnt' = IF ~CR_EN(PWMCR) THEN ClkDisabled(ClkEnabled(clk_cnt))
                  ELSE ClkEnabled(clk_cnt)
    /\ UNCHANGED <<clkrate, BITS_PER_LONG, hw, duty_cycle, pwm_state, loc, warn, gs,
                   irq_off, glitch, ops>>

\* the core requests the PWM of a registered chip: it calls get_state (lines
\* 104-158) on a zeroed struct pwm_state and keeps the result as pwm->state
pwm_device_request ==
    /\ pc = "probed"
    /\ pc' = "idle"
    /\ op' = "request"
    /\ ret' = 0
    /\ entry' = Snapshot
    /\ gs' = GetStateResult(PWM_POLARITY_NORMAL)
    /\ acc' = GetStateReads(CR_EN(PWMCR), ClkEnabled(clk_cnt))
    /\ warn' = IF PolarityWarns(PWMCR) THEN {"polarity"} ELSE {}
    /\ clk_cnt' = ClkDisabled(ClkEnabled(clk_cnt))
    /\ pwm_state' = CoreRequestState(GetStateResult(PWM_POLARITY_NORMAL))
    /\ UNCHANGED <<clkrate, BITS_PER_LONG, hw, duty_cycle, loc, irq_off, glitch, ops>>

(***************************************************************************)
(* pwm_imx27_apply, lines 200-367, with pwm_imx27_sw_reset (160-176) and   *)
(* pwm_imx27_wait_fifo_slot (178-198).                                     *)
(***************************************************************************)
\* lines 212-233 and the branch of line 239, for a state drawn from cfgs
ApplyConvert(cfgs) ==
    /\ pc = "idle" /\ ops < MaxOps
    /\ \E cfg \in cfgs :
          LET hcu == Convert(clkrate, cfg.period, cfg.duty, BITS_PER_LONG)
          IN loc' = [NoLocals EXCEPT !.period = cfg.period, !.duty = cfg.duty,
                                     !.polarity = cfg.polarity,
                                     !.enabled = cfg.enabled,
                                     !.prescale = hcu.prescale,
                                     !.period_cycles = hcu.period_cycles,
                                     !.duty_cycles = hcu.duty_cycles]
    /\ pc' = IF pwm_state.enabled THEN "wait_slot" ELSE "clk_enable"
    /\ op' = "apply"
    /\ ops' = ops + 1
    /\ entry' = Snapshot
    /\ acc' = <<>>
    /\ warn' = {}
    /\ glitch' = FALSE
    /\ UNCHANGED <<clkrate, BITS_PER_LONG, hw, clk_cnt, duty_cycle, pwm_state, ret, gs, irq_off>>

pwm_imx27_apply_convert == ApplyConvert(Configs)

\* pwm_imx27_apply_clk_fail with the reset requested before the clock is checked
pwm_imx27_apply_clk_fail_late ==
    /\ pc = "clk_enable"
    /\ pc' = "idle"
    /\ ret' = EIO
    /\ PWMCR' = MX3_PWMCR_SWR
    /\ acc' = Append(acc, Access("w", "PWMCR", MX3_PWMCR_SWR, clk_cnt, irq_off))
    /\ UNCHANGED <<clkrate, BITS_PER_LONG, PWMPR, fifo, sar, clk_cnt, duty_cycle, pwm_state, op,
                   loc, warn, entry, gs, irq_off, glitch, ops>>

\* line 242-244: clk_bulk_prepare_enable fails, return ret
pwm_imx27_apply_clk_fail ==
    /\ pc = "clk_enable"
    /\ pc' = "idle"
    /\ ret' = EIO
    /\ UNCHANGED <<clkrate, BITS_PER_LONG, hw, clk_cnt, duty_cycle, pwm_state, op, loc, acc,
                   warn, entry, gs, irq_off, glitch, ops>>

\* line 242: clk_bulk_prepare_enable succeeds
pwm_imx27_apply_clk_enable ==
    /\ pc = "clk_enable"
    /\ pc' = "sw_reset"
    /\ clk_cnt' = ClkEnabled(clk_cnt)
    /\ UNCHANGED <<clkrate, BITS_PER_LONG, hw, duty_cycle, pwm_state, op, loc, ret, acc, warn,
                   entry, gs, irq_off, glitch, ops>>

\* pwm_imx27_sw_reset requesting the reset with the enable bit set
pwm_imx27_sw_reset_enabled ==
    /\ pc = "sw_reset"
    /\ pc' = "sw_reset_poll"
    /\ PWMCR' = MX3_PWMCR_SWR + MX3_PWMCR_EN
    /\ loc' = [loc EXCEPT !.wait_count = 0, !.polls = 0]
    /\ acc' = Append(acc, Access("w", "PWMCR", MX3_PWMCR_SWR + MX3_PWMCR_EN,
                                 clk_cnt, irq_off))
    /\ UNCHANGED <<clkrate, BITS_PER_LONG, PWMPR, fifo, sar, clk_cnt, duty_cycle, pwm_state, op,
                   ret, warn, entry, gs, irq_off, glitch, ops>>

\* line 167: writel(MX3_PWMCR_SWR, PWMCR)
pwm_imx27_sw_reset ==
    /\ pc = "sw_reset"
    /\ pc' = "sw_reset_poll"
    /\ PWMCR' = MX3_PWMCR_SWR
    /\ loc' = [loc EXCEPT !.wait_count = 0, !.polls = 0]
    /\ acc' = Append(acc, Access("w", "PWMCR", MX3_PWMCR_SWR, clk_cnt, irq_off))
    /\ UNCHANGED <<clkrate, BITS_PER_LONG, PWMPR, fifo, sar, clk_cnt, duty_cycle, pwm_state, op,
                   ret, warn, entry, gs, irq_off, glitch, ops>>

\* (cr & MX3_PWMCR_SWR) && (wait_count++ < MX3_PWM_SWR_LOOP), lines 171-172
SwResetAgain(cr, wait_count) == CR_SWR(cr) /\ wait_count < MX3_PWM_SWR_LOOP

\* pwm_imx27_sw_reset_poll giving up with an error when the reset times out
pwm_imx27_sw_reset_poll_abort ==
    /\ pc = "sw_reset_poll"
    /\ acc' = Append(acc, Access("r", "PWMCR", PWMCR, clk_cnt, irq_off))
    /\ loc' = [loc EXCEPT !.polls = @ + 1,
                          !.wait_count = IF CR_SWR(PWMCR) THEN @ + 1 ELSE @]
    /\ IF SwResetAgain(PWMCR, loc.wait_count)
         THEN /\ pc' = "sw_reset_poll"
              /\ warn' = warn
              /\ ret' = ret
         ELSE IF CR_SWR(PWMCR)
           THEN /\ pc' = "idle"
                /\ warn' = warn \cup {"software reset timeout"}
                /\ ret' = EIO
           ELSE /\ pc' = "read_regs"
                /\ warn' = warn
                /\ ret' = ret
    /\ UNCHANGED <<clkrate, BITS_PER_LONG, hw, clk_cnt, duty_cycle, pwm_state, op, entry,
                   gs, irq_off, glitch, ops>>

\* one pass of the do-while of lines 168-172, and lines 174-175 when it ends
pwm_imx27_sw_reset_poll ==
    /\ pc = "sw_reset_poll"
    /\ acc' = Append(acc, Access("r", "PWMCR", PWMCR, clk_cnt, irq_off))
    /\ loc' = [loc EXCEPT !.polls = @ + 1,
                          !.wait_count = IF CR_SWR(PWMCR) THEN @ + 1 ELSE @]
    /\ IF SwResetAgain(PWMCR, loc.wait_count)
         THEN /\ pc' = "sw_reset_poll"
              /\ warn' = warn
         ELSE /\ pc' = "read_regs"
              /\ warn' = IF CR_SWR(PWMCR) THEN warn \cup {"software reset timeout"}
                         ELSE warn
    /\ UNCHANGED <<clkrate, BITS_PER_LONG, hw, clk_cnt, duty_cycle, pwm_state, op, ret, entry,
                   gs, irq_off, glitch, ops>>

\* lines 187-189: the first read of PWMSR
pwm_imx27_wait_fifo_slot ==
    /\ pc = "wait_slot"
    /\ acc' = Append(acc, Access("r", "PWMSR", Len(fifo), clk_cnt, irq_off))
    /\ loc' = [loc EXCEPT !.fifoav = Len(fifo)]
    /\ pc' = IF Len(fifo) = MX3_PWMSR_FIFOAV_4WORDS THEN "wait_slot_recheck"
             ELSE "read_regs"
    /\ UNCHANGED <<clkrate, BITS_PER_LONG, hw, clk_cnt, duty_cycle, pwm_state, op, ret, warn,
                   entry, gs, irq_off, glitch, ops>>

\* lines 190-196: after msleep, the second read of PWMSR
pwm_imx27_wait_fifo_slot_recheck ==
    /\ pc = "wait_slot_recheck"
    /\ acc' = Append(acc, Access("r", "PWMSR", Len(fifo), clk_cnt, irq_off))
    /\ warn' = IF loc.fifoav = Len(fifo)
                 THEN warn \cup {"there is no free FIFO slot"} ELSE warn
    /\ pc' = "read_regs"
    /\ UNCHANGED <<clkrate, BITS_PER_LONG, hw, clk_cnt, duty_cycle, pwm_state, op, loc, ret,
                   entry, gs, irq_off, glitch, ops>>

\* lines 249-254 and 315-316
pwm_imx27_apply_read_regs ==
    /\ pc = "read_regs"
    /\ acc' = acc \o <<Access("r", "PWMPR", PWMPR, clk_cnt, irq_off),
                       Access("r", "PWMCR", PWMCR, clk_cnt, irq_off)>>
    /\ loc' = [loc EXCEPT !.val = ClampPeriod(PWMPR),
                          !.cr = PWMCR,
                          !.period_us = PeriodUs(ClampPeriod(PWMPR), PWMCR, clkrate,
                                                 BITS_PER_LONG),
                          !.c = MarginCycles(clkrate)]
    /\ pc' = "irq_save"
    /\ UNCHANGED <<clkrate, BITS_PER_LONG, hw, clk_cnt, duty_cycle, pwm_state, op, ret, warn,
                   entry, gs, irq_off, glitch, ops>>

\* lines 318-319: local_irq_save and the read of the FIFO level
pwm_imx27_apply_irq_save ==
    /\ pc = "irq_save"
    /\ irq_off' = TRUE
    /\ acc' = Append(acc, Access("r", "PWMSR", Len(fifo), clk_cnt, TRUE))
    /\ loc' = [loc EXCEPT !.val = Len(fifo)]
    /\ pc' = "erratum"
    /\ UNCHANGED <<clkrate, BITS_PER_LONG, hw, clk_cnt, duty_cycle, pwm_state, op, ret, warn,
                   entry, gs, glitch, ops>>

\* line 321 false, or neither branch of lines 322 and 327 taken
pwm_imx27_apply_no_guard ==
    /\ pc = "erratum"
    /\ \/ ~DutyDecreases(loc.duty_cycles, duty_cycle, loc.cr)
       \/ (~FastPeriod(loc.period_us) /\ ~FifoNearlyEmpty(loc.val))
    /\ pc' = "write_new"
    /\ UNCHANGED <<clkrate, BITS_PER_LONG, hw, clk_cnt, duty_cycle, pwm_state, op, loc, ret,
                   acc, warn, entry, gs, irq_off, glitch, ops>>

\* the length of the running period in ns, and in us rounded up
HwPeriodNs ==
    MulDivRoundUp(NSEC_PER_SEC,
                  HwPeriodTicks(PWMPR) * MX3_PWMCR_PRESCALER_GET(PWMCR), clkrate)
HwPeriodUs == DivRoundUp(HwPeriodNs, 1000)

\* periods that end during udelay(3 * period_us), line 324: as many as fit
\* in the delay, or one more; four empty the FIFO
DelayRollovers ==
    LET n == (3000 * loc.period_us) \div HwPeriodNs
    IN {IF n > FifoDepth THEN FifoDepth ELSE n,
        IF n + 1 > FifoDepth THEN FifoDepth ELSE n + 1}

\* lines 322-326: the busy-wait, then the old value twice
pwm_imx27_apply_guard_fast ==
    /\ pc = "erratum"
    /\ DutyDecreases(loc.duty_cycles, duty_cycle, loc.cr)
    /\ FastPeriod(loc.period_us)
    /\ \E n \in DelayRollovers :
          LET h  == HwPopN(fifo, sar, n)
              w1 == HwSampleWrite(h.fifo, h.sar, duty_cycle)
              w2 == HwSampleWrite(w1.fifo, w1.sar, duty_cycle)
          IN /\ fifo' = w2.fifo
             /\ sar' = w2.sar
    /\ acc' = acc \o <<Access("w", "PWMSAR", duty_cycle, clk_cnt, irq_off),
                       Access("w", "PWMSAR", duty_cycle, clk_cnt, irq_off)>>
    /\ pc' = "write_new"
    /\ UNCHANGED <<clkrate, BITS_PER_LONG, PWMCR, PWMPR, clk_cnt, duty_cycle, pwm_state, op, loc,
                   ret, warn, entry, gs, irq_off, glitch, ops>>

\* the positions the counter may be read at: the ends of its range and the
\* thresholds of the comparison of lines 333-334, each with its predecessor
CounterValues ==
    LET top == HwPeriodTicks(PWMPR) - 1
        at  == {0, 150, top, duty_cycle, duty_cycle - 1,
                loc.period_cycles - loc.c, loc.period_cycles - loc.c - 1}
    IN {x \in at : 0 <= x /\ x <= top}

\* counter ticks from the counter read to the sample writes taking effect:
\* none, or the whole 1500 ns margin
Latencies == {0, loc.c \div MX3_PWMCR_PRESCALER_GET(PWMCR)}

\* lines 327-336: the counter is read and the old value written if it is in
\* the errata window; the writes take effect d ticks after the read
pwm_imx27_apply_guard_counter ==
    /\ pc = "erratum"
    /\ DutyDecreases(loc.duty_cycles, duty_cycle, loc.cr)
    /\ ~FastPeriod(loc.period_us)
    /\ FifoNearlyEmpty(loc.val)
    /\ \E cnt \in CounterValues, d \in Latencies :
          LET h == HwAfter(fifo, sar, PWMPR, cnt, d)
              w == IF InErrataWindow(cnt, loc.c, loc.duty_cycles, duty_cycle,
                                     loc.period_cycles)
                     THEN HwSampleWrite(h.fifo, h.sar, duty_cycle)
                     ELSE [fifo |-> h.fifo, sar |-> h.sar]
          IN /\ fifo' = w.fifo
             /\ sar' = w.sar
             /\ loc' = [loc EXCEPT !.val = cnt, !.cnt = cnt, !.pos = h.pos]
             /\ acc' = acc \o <<Access("r", "PWMCNR", cnt, clk_cnt, irq_off)>>
                        \o (IF InErrataWindow(cnt, loc.c, loc.duty_cycles,
                                              duty_cycle, loc.period_cycles)
                              THEN <<Access("w", "PWMSAR", duty_cycle, clk_cnt,
                                            irq_off)>>
                              ELSE <<>>)
    /\ pc' = "write_new"
    /\ UNCHANGED <<clkrate, BITS_PER_LONG, PWMCR, PWMPR, clk_cnt, duty_cycle, pwm_state, op, ret,
                   warn, entry, gs, irq_off, glitch, ops>>

\* ERR051198: the new sample is applied directly (the FIFO is empty) while the
\* counter is past it and the output has not yet been toggled by the old one
ErratumGlitch(f, s, pos, new) == Len(f) = 0 /\ pos > new /\ pos < s

\* pwm_imx27_apply_write_new restoring interrupts before the write
pwm_imx27_apply_write_new_unmasked ==
    /\ pc = "write_new"
    /\ LET w == HwSampleWrite(fifo, sar, loc.duty_cycles)
       IN /\ fifo' = w.fifo
          /\ sar' = w.sar
    /\ glitch' = /\ DutyDecreases(loc.duty_cycles, duty_cycle, loc.cr)
                 /\ HwPeriodUs >= 2
                 /\ ErratumGlitch(fifo, sar, loc.pos, loc.duty_cycles)
    /\ acc' = Append(acc, Access("w", "PWMSAR", loc.duty_cycles, clk_cnt, FALSE))
    /\ irq_off' = FALSE
    /\ pc' = "commit"
    /\ UNCHANGED <<clkrate, BITS_PER_LONG, PWMCR, PWMPR, clk_cnt, duty_cycle, pwm_state, op, loc,
                   ret, warn, entry, gs, ops>>

\* lines 338-339: the new value, and local_irq_restore
pwm_imx27_apply_write_new ==
    /\ pc = "write_new"
    /\ LET w == HwSampleWrite(fifo, sar, loc.duty_cycles)
       IN /\ fifo' = w.fifo
          /\ sar' = w.sar
    /\ glitch' = /\ DutyDecreases(loc.duty_cycles, duty_cycle, loc.cr)
                 /\ HwPeriodUs >= 2
                 /\ ErratumGlitch(fifo, sar, loc.pos, loc.duty_cycles)
    /\ acc' = Append(acc, Access("w", "PWMSAR", loc.duty_cycles, clk_cnt, irq_off))
    /\ irq_off' = FALSE
    /\ pc' = "commit"
    /\ UNCHANGED <<clkrate, BITS_PER_LONG, PWMCR, PWMPR, clk_cnt, duty_cycle, pwm_state, op, loc,
                   ret, warn, entry, gs, ops>>

\* pwm_imx27_apply_commit keeping the old cache when the counter branch ran
pwm_imx27_apply_commit_stale ==
    /\ pc = "commit"
    /\ PWMPR' = loc.period_cycles % 65536
    /\ duty_cycle' = IF loc.cnt >= 0 THEN duty_cycle ELSE loc.duty_cycles
    /\ PWMCR' = ControlWord(loc.prescale, loc.polarity, loc.enabled)
    /\ acc' = acc \o <<Access("w", "PWMPR", loc.period_cycles, clk_cnt, irq_off),
                       Access("w", "PWMCR",
                              ControlWord(loc.prescale, loc.polarity, loc.enabled),
                              clk_cnt, irq_off)>>
    /\ clk_cnt' = IF ~loc.enabled THEN ClkDisabled(clk_cnt) ELSE clk_cnt
    /\ pwm_state' = CoreCommitState(PwmState(loc.period, loc.duty, loc.polarity,
                                           loc.enabled))
    /\ ret' = 0
    /\ pc' = "idle"
    /\ UNCHANGED <<clkrate, BITS_PER_LONG, fifo, sar, op, loc, warn, entry, gs, irq_off, glitch, ops>>

\* pwm_imx27_apply_commit writing the control register before the period
pwm_imx27_apply_commit_cr_first ==
    /\ pc = "commit"
    /\ PWMPR' = loc.period_cycles % 65536
    /\ duty_cycle' = loc.duty_cycles
    /\ PWMCR' = ControlWord(loc.prescale, loc.polarity, loc.enabled)
    /\ acc' = acc \o <<Access("w", "PWMCR",
                              ControlWord(loc.prescale, loc.polarity, loc.enabled),
                              clk_cnt, irq_off),
                       Access("w", "PWMPR", loc.period_cycles, clk_cnt, irq_off)>>
    /\ clk_cnt' = IF ~loc.enabled THEN ClkDisabled(clk_cnt) ELSE clk_cnt
    /\ pwm_state' = CoreCommitState(PwmState(loc.period, loc.duty, loc.polarity,
                                           loc.enabled))
    /\ ret' = 0
    /\ pc' = "idle"
    /\ UNCHANGED <<clkrate, BITS_PER_LONG, fifo, sar, op, loc, warn, entry, gs, irq_off, glitch, ops>>

\* lines 341-366: period register, cache, control register, clock, return 0
pwm_imx27_apply_commit ==
    /\ pc = "commit"
    /\ PWMPR' = loc.period_cycles % 65536
    /\ duty_cycle' = loc.duty_cycles
    /\ PWMCR' = ControlWord(loc.prescale, loc.polarity, loc.enabled)
    /\ acc' = acc \o <<Access("w", "PWMPR", loc.period_cycles, clk_cnt, irq_off),
                       Access("w", "PWMCR",
                              ControlWord(loc.prescale, loc.polarity, loc.enabled),
                              clk_cnt, irq_off)>>
    /\ clk_cnt' = IF ~loc.enabled THEN ClkDisabled(clk_cnt) ELSE clk_cnt
    /\ pwm_state' = CoreCommitState(PwmState(loc.period, loc.duty, loc.polarity,
                                           loc.enabled))
    /\ ret' = 0
    /\ pc' = "idle"
    /\ UNCHANGED <<clkrate, BITS_PER_LONG, fifo, sar, op, loc, warn, entry, gs, irq_off, glitch, ops>>

(***************************************************************************)
(* The controller's own steps.                                             *)
(***************************************************************************)
\* a period ends while the controller runs: the next queued sample is loaded.
\* It can happen between any two steps of the driver; the periods that end
\* between local_irq_save and the last sample write are those of HwAfter and
\* DelayRollovers.
HwRollover ==
    /\ pc \in {"probed", "idle", "wait_slot", "wait_slot_recheck", "read_regs",
               "irq_save", "commit"}
    /\ CR_EN(PWMCR) /\ clk_cnt > 0
    /\ fifo # <<>>
    /\ fifo' = HwPop(fifo, sar).fifo
    /\ sar' = HwPop(fifo, sar).sar
    /\ UNCHANGED <<clkrate, BITS_PER_LONG, PWMCR, PWMPR, clk_cnt, duty_cycle, pwm_state, pc, op,
                   loc, ret, acc, warn, entry, gs, irq_off, glitch, ops>>

\* the software reset completes: SWR clears itself, the FIFO is flushed and the
\* registers take their reset values.  It may complete during the poll loop
\* or, after the loop gave up, at any later point of the apply.
HwResetDone ==
    /\ pc \in {"sw_reset_poll", "read_regs", "irq_save", "erratum", "write_new",
               "commit"}
    /\ CR_SWR(PWMCR)
    /\ PWMCR' = 0
    /\ PWMPR' = MX3_PWMPR_MAX
    /\ fifo' = <<>>
    /\ sar' = 0
    /\ UNCHANGED <<clkrate, BITS_PER_LONG, clk_cnt, duty_cycle, pwm_state, pc, op, loc, ret, acc,
                   warn, entry, gs, irq_off, glitch, ops>>

Next ==
    \/ pwm_imx27_probe_fail
    \/ pwm_imx27_probe
    \/ pwm_device_request
    \/ pwm_imx27_get_state_fail
    \/ pwm_imx27_get_state
    \/ pwm_imx27_apply_convert
    \/ pwm_imx27_apply_clk_fail
    \/ pwm_imx27_apply_clk_enable
    \/ pwm_imx27_sw_reset
    \/ pwm_imx27_sw_reset_poll
    \/ pwm_imx27_wait_fifo_slot
    \/ pwm_imx27_wait_fifo_slot_recheck
    \/ pwm_imx27_apply_read_regs
    \/ pwm_imx27_apply_irq_save
    \/ pwm_imx27_apply_no_guard
    \/ pwm_imx27_apply_guard_fast
    \/ pwm_imx27_apply_guard_counter
    \/ pwm_imx27_apply_write_new
    \/ pwm_imx27_apply_commit
    \/ HwRollover
    \/ HwResetDone

Spec == Init /\ [][Next]_vars


(***************************************************************************)
(* The conversions: one pwm_imx27_apply on the stopped controller in its   *)
(* reset state, then pwm_imx27_get_state, over a wider range of periods,   *)
(* duties and clock rates.  The steps of apply and of the controller are   *)
(* those of Spec.                                                          *)
(***************************************************************************)
ConvClkRates == {32768, 66000000, 200000000}

\* periods from 10 ns up; of the last two, 65.0752621 s is 2^32 + 2 cycles at
\* 66 MHz, and clkrate * 92.23372037 s passes 2^64 at 200 MHz
ConvPeriodNs ==
    {U64(10), U64(31), U64(1000), U64(75788), U64(909122), U64(1500000),
     Ns(2, 0), Ns(65, 75262100), Ns(92, 233720370)}

\* duties from none to the whole period; in between, half the period, or 2 s
\* for the periods beyond 4 s
ConvDutyNs(p) ==
    {U64(0), U64(1), IF U64Lt(p, Ns(4, 0)) THEN U64Div(p, 2) ELSE Ns(2, 0),
     U64Dec(p), p}

ConvConfigs ==
    UNION { { PwmState(p, d, pol, en) :
                d \in ConvDutyNs(p),
                pol \in {PWM_POLARITY_NORMAL, PWM_POLARITY_INVERSED},
                en \in BOOLEAN } : p \in ConvPeriodNs }

\* the controller found stopped in its reset state, probed and requested
ConvInit ==
    /\ clkrate \in ConvClkRates
    /\ BITS_PER_LONG \in LongWidths
    /\ PWMCR = 0
    /\ PWMPR = MX3_PWMPR_MAX
    /\ fifo = <<>>
    /\ sar = 0
    /\ clk_cnt = 0
    /\ duty_cycle = 0
    /\ gs = GetStateResult(PWM_POLARITY_NORMAL)
    /\ pwm_state = CoreRequestState(gs)
    /\ pc = "idle"
    /\ op = "request"
    /\ loc = NoLocals
    /\ ret = 0
    /\ acc = <<>>
    /\ warn = {}
    /\ entry = [PWMCR |-> 0, PWMPR |-> 0, fifo |-> <<>>, sar |-> 0,
                duty_cycle |-> 0, clk_cnt |-> 0, pwm_state |-> NoConfig,
                prev_op |-> "none", prev_ret |-> 0]
    /\ irq_off = FALSE
    /\ glitch = FALSE
    /\ ops = 0

\* the first operation: pwm_imx27_apply is entered, lines 212-239
ConvApply == ops = 0 /\ ApplyConvert(ConvConfigs)

\* the operations after it: pwm_imx27_get_state
ConvGetState == ops > 0 /\ (pwm_imx27_get_state \/ pwm_imx27_get_state_fail)

ConvNext ==
    \/ ConvApply
    \/ pwm_imx27_apply_clk_fail
    \/ pwm_imx27_apply_clk_enable
    \/ pwm_imx27_sw_reset
    \/ pwm_imx27_sw_reset_poll
    \/ pwm_imx27_apply_read_regs
    \/ pwm_imx27_apply_irq_save
    \/ pwm_imx27_apply_no_guard
    \/ pwm_imx27_apply_write_new
    \/ pwm_imx27_apply_commit
    \/ ConvGetState
    \/ HwRollover
    \/ HwResetDone

SpecConv == ConvInit /\ [][ConvNext]_vars

(***************************************************************************)
(* Properties.  acc is the register traffic of the operation in progress   *)
(* or last finished; entry is the state the operation started from.        *)
(***************************************************************************)
Writes(reg) == SelectSeq(acc, LAMBDA a : a.k = "w" /\ a.reg = reg)
Reads(reg) == SelectSeq(acc, LAMBDA a : a.k = "r" /\ a.reg = reg)
Abs(x) == IF x < 0 THEN 0 - x ELSE x
ApplyReturned == pc = "idle" /\ op = "apply"
GetStateReturned == pc = "idle" /\ op = "get_state"

\* a successful apply has returned; a successful get_state right after one has
Applied == ApplyReturned /\ ret = 0
ReadBack ==
    /\ GetStateReturned /\ ret = 0
    /\ entry.prev_op = "apply" /\ entry.prev_ret = 0

\* the accesses of an apply that precede its read of PWMPR (line 249):
\* those of pwm_imx27_sw_reset or pwm_imx27_wait_fifo_slot
BeforeReadRegs ==
    LET I == {i \in 1..Len(acc) : acc[i].k = "r" /\ acc[i].reg = "PWMPR"}
    IN IF I = {} THEN acc
       ELSE SubSeq(acc, 1, (CHOOSE i \in I : \A j \in I : i <= j) - 1)
PollReads == SelectSeq(BeforeReadRegs, LAMBDA a : a.k = "r" /\ a.reg = "PWMCR")
SlotReads == SelectSeq(BeforeReadRegs, LAMBDA a : a.k = "r" /\ a.reg = "PWMSR")
SwResetNeverCleared ==
    /\ Len(PollReads) > 0
    /\ \A i \in 1..Len(PollReads) : CR_SWR(PollReads[i].v)
FifoFullTwice ==
    /\ Len(SlotReads) = 2
    /\ \A i \in 1..2 : SlotReads[i].v = MX3_PWMSR_FIFOAV_4WORDS

\* C1: when the duty cycle is decreased on a running PWM, no output period
\* is driven high for its whole length, for any counter position, FIFO fill
\* level and period.
C1_NoFullHighPeriod == ~glitch

\* C2: an apply whose clock acquisition fails returns the error having
\* touched no register, requested no reset, and left the cached duty and
\* the clock enable count as they were.
C2_ClkFailNoSideEffects ==
    (ApplyReturned /\ ret # 0) =>
        /\ acc = <<>>
        /\ PWMCR = entry.PWMCR /\ PWMPR = entry.PWMPR
        /\ fifo = entry.fifo /\ sar = entry.sar
        /\ duty_cycle = entry.duty_cycle
        /\ clk_cnt = entry.clk_cnt
        /\ pwm_state = entry.pwm_state

C2_Witness ==
    /\ ApplyReturned /\ ret = EIO
    /\ entry.prev_op = "apply" /\ entry.prev_ret = 0
    /\ entry.duty_cycle > 0

\* C3: an apply fails only when the clock it needed could not be acquired;
\* otherwise it returns 0 and ends with the writes of the new PWMSAR, PWMPR
\* and PWMCR values, a reset that never cleared or a FIFO found full twice
\* leaving only a warning.
C3_DegradedNeverAborts ==
    ApplyReturned =>
        /\ ret # 0 => (~entry.pwm_state.enabled /\ clk_cnt = entry.clk_cnt)
        /\ ret = 0 =>
              /\ Len(acc) >= 3
              /\ acc[Len(acc) - 2].k = "w" /\ acc[Len(acc) - 2].reg = "PWMSAR"
              /\ acc[Len(acc) - 2].v = loc.duty_cycles
              /\ acc[Len(acc) - 1].k = "w" /\ acc[Len(acc) - 1].reg = "PWMPR"
              /\ acc[Len(acc) - 1].v = loc.period_cycles
              /\ acc[Len(acc)].k = "w" /\ acc[Len(acc)].reg = "PWMCR"
              /\ acc[Len(acc)].v = ControlWord(loc.prescale, loc.polarity, loc.enabled)
              /\ SwResetNeverCleared => "software reset timeout" \in warn
              /\ FifoFullTwice => "there is no free FIFO slot" \in warn
        /\ (SwResetNeverCleared \/ FifoFullTwice) => ret = 0

C3_Witness ==
    /\ ApplyReturned /\ ret = 0
    /\ SwResetNeverCleared
    /\ "software reset timeout" \in warn
    /\ PWMPR = loc.period_cycles

\* C4, read in the way most favourable to the code: for every accepted
\* configuration (duty <= period) the value written to PWMSAR exceeds the
\* value written to PWMPR by at most the two cycles the period register
\* leaves out, and the prescaler is at least 1.  The claim as written asks for
\* PWMSAR <= PWMPR, which is stronger: it fails wherever this fails.
C4_DutyWithinPeriodPlusTwo ==
    (Applied /\ U64Le(loc.duty, loc.period)) =>
        /\ loc.duty_cycles <= loc.period_cycles + 2
        /\ sar <= PWMPR + 2
        /\ loc.prescale >= 1
        /\ MX3_PWMCR_PRESCALER_GET(PWMCR) >= 1

\* the resolution of one counter tick at the programmed prescaler, in ns
TickUnit ==
    U64DivRoundUp(U64Mul(U64(NSEC_PER_SEC), U64(loc.prescale)), clkrate)

\* a and b differ by less than t
U64Near(a, b, t) == U64Lt(a, U64Add(b, t)) /\ U64Lt(b, U64Add(a, t))

\* the read-back is not below what the registers hold: it covers as many
\* clock cycles as the decoded register values describe
ReadBackCoversRegisters ==
    /\ U64Le(U64Mul(U64(ClampPeriod(PWMPR) + 2),
                     U64(MX3_PWMCR_PRESCALER_GET(PWMCR))),
             CyclesIn(clkrate, gs.period))
    /\ U64Le(U64Mul(U64(GetStateDutyValue(CR_EN(PWMCR))),
                     U64(MX3_PWMCR_PRESCALER_GET(PWMCR))),
             CyclesIn(clkrate, gs.duty_cycle))

ReadBackWithinUnit ==
    /\ U64Near(gs.period, loc.period, TickUnit)
    /\ U64Near(gs.duty_cycle, loc.duty, TickUnit)

\* C5: reading back right after an apply gives a period and a duty within
\* one prescaled tick of the requested ones, and never below what the
\* registers hold.
C5_RoundTrip ==
    ReadBack => (ReadBackWithinUnit /\ ReadBackCoversRegisters)

\* a successful apply of the configuration the previous successful apply set
SameConfigApplied ==
    /\ ApplyReturned /\ ret = 0
    /\ entry.prev_op = "apply" /\ entry.prev_ret = 0
    /\ entry.pwm_state = PwmState(loc.period, loc.duty, loc.polarity, loc.enabled)

\* C6: applying the configuration that is already applied leaves PWMPR,
\* PWMCR and the cached duty with the values they had, and writes PWMSAR
\* exactly once, with the duty already programmed: no guard write.
C6_Idempotent ==
    SameConfigApplied =>
        /\ PWMPR = entry.PWMPR
        /\ PWMCR = entry.PWMCR
        /\ duty_cycle = entry.duty_cycle
        /\ Len(Writes("PWMSAR")) = 1
        /\ Writes("PWMSAR")[1].v = entry.duty_cycle
        /\ Reads("PWMCNR") = <<>>

C6_Witness ==
    /\ SameConfigApplied
    /\ CR_EN(entry.PWMCR)
    /\ entry.duty_cycle > 0
    /\ Len(entry.fifo) < MX3_PWMSR_FIFOAV_2WORDS

\* C7: the software reset reads PWMCR at most MX3_PWM_SWR_LOOP (5) times.
C7_AtMostFivePolls == loc.polls <= MX3_PWM_SWR_LOOP

\* C8: get_state on a disabled controller derives the duty from the cached
\* duty of the last completed apply (0 when there was none) and does not
\* read PWMSAR; on an enabled controller it derives it from PWMSAR.
C8_DisabledReadsCache ==
    (GetStateReturned /\ ret = 0) =>
        /\ gs.enabled = CR_EN(entry.PWMCR)
        /\ IF CR_EN(entry.PWMCR)
             THEN /\ Len(Reads("PWMSAR")) = 1
                  /\ gs.duty_cycle = ReadDutyNs(entry.PWMCR, entry.sar, clkrate)
             ELSE /\ Reads("PWMSAR") = <<>>
                  /\ gs.duty_cycle
                       = ReadDutyNs(entry.PWMCR, entry.duty_cycle, clkrate)
        /\ (entry.prev_op = "apply" /\ entry.prev_ret = 0)
              => entry.duty_cycle = loc.duty_cycles
        /\ entry.prev_op = "request" => entry.duty_cycle = 0

C8_Witness ==
    /\ GetStateReturned /\ ret = 0
    /\ ~gs.enabled
    /\ entry.duty_cycle > 0
    /\ entry.sar # entry.duty_cycle
    /\ gs.duty_cycle # ReadDutyNs(entry.PWMCR, entry.sar, clkrate)

\* C9: get_state writes no register and leaves the cached duty and the
\* clock enable count as they were; it reads registers only with the clock
\* enabled; when the clock enable fails it reads nothing; an unrecognized
\* output configuration leaves the polarity field as the caller passed it.
C9_GetStateReadOnly ==
    GetStateReturned =>
        /\ \A i \in 1..Len(acc) : acc[i].k = "r" /\ acc[i].clk >= 1
        /\ PWMCR = entry.PWMCR /\ PWMPR = entry.PWMPR
        /\ duty_cycle = entry.duty_cycle
        /\ clk_cnt = entry.clk_cnt
        /\ ret = 0 => Len(acc) >= 2
        /\ ret # 0 => acc = <<>>
        /\ (ret = 0 /\ POUTC_GET(entry.PWMCR) \notin
                {MX3_PWMCR_POUTC_NORMAL, MX3_PWMCR_POUTC_INVERTED})
              => ("polarity" \in warn /\ gs.polarity = gs.prior)

C9_Witness ==
    /\ GetStateReturned /\ ret = 0
    /\ "polarity" \in warn
    /\ gs.prior = PWM_POLARITY_INVERSED
    /\ gs.polarity = PWM_POLARITY_INVERSED
    /\ entry.clk_cnt = 1

\* C10: every register access happens with the clock enabled; between
\* operations the clock enable count is 1 when the controller is enabled
\* and 0 when it is not; the count never goes below zero.
C10_ClockDiscipline ==
    /\ \A i \in 1..Len(acc) : acc[i].clk >= 1
    /\ clk_cnt >= 0
    /\ pc \in {"probed", "idle"} => clk_cnt = (IF CR_EN(PWMCR) THEN 1 ELSE 0)
    /\ pc = "idle" => pwm_state.enabled = CR_EN(PWMCR)

C10_Witness ==
    /\ ApplyReturned /\ ret = 0
    /\ ~entry.pwm_state.enabled /\ entry.clk_cnt = 0
    /\ entry.prev_op = "apply"
    /\ CR_EN(PWMCR) /\ clk_cnt = 1

\* the FIFO level read inside the critical section (line 319)
CriticalFifoLevel ==
    LET r == SelectSeq(acc, LAMBDA a : a.k = "r" /\ a.reg = "PWMSR" /\ a.irq)
    IN IF r = <<>> THEN 0 - 1 ELSE r[1].v

\* the 1500 ns margin in ticks of the running counter
MarginTicks == MarginCycles(clkrate) \div MX3_PWMCR_PRESCALER_GET(loc.cr)

\* the counter, projected by the margin, reaches the new duty while below the
\* old one, or reaches the end of the running period
ProjectedInWindow(cnt) ==
    \/ (cnt + MarginTicks >= loc.duty_cycles /\ cnt < duty_cycle)
    \/ cnt + MarginTicks >= HwPeriodTicks(PWMPR)

\* the erratum decision has been taken for a decrease on a running controller
\* with a period of at least 2 us; the new duty is not yet written
DecreaseDecided ==
    /\ pc = "write_new"
    /\ CR_EN(loc.cr)
    /\ HwPeriodUs >= 2
    /\ loc.duty_cycles < duty_cycle

\* C11: on a decrease on a running controller with a period of at least 2 us,
\* whenever the FIFO holds fewer than 2 words and the counter that was read,
\* projected by the margin, is in the window, the old duty is written to
\* PWMSAR before the new one.
C11_GuardInWindow ==
    (/\ DecreaseDecided
     /\ CriticalFifoLevel < MX3_PWMSR_FIFOAV_2WORDS
     /\ loc.cnt >= 0
     /\ ProjectedInWindow(loc.cnt))
        => /\ Writes("PWMSAR") # <<>>
           /\ Writes("PWMSAR")[1].v = duty_cycle

\* C12: an apply whose new duty is not below the cached duty, or that read
\* PWMCR with the enable bit clear, writes PWMSAR exactly once, with the new
\* duty, and does not read the counter.
C12_GuardOnlyOnDecrease ==
    (/\ ApplyReturned /\ ret = 0
     /\ (loc.duty_cycles >= entry.duty_cycle \/ ~CR_EN(loc.cr)))
        => /\ Len(Writes("PWMSAR")) = 1
           /\ Writes("PWMSAR")[1].v = loc.duty_cycles
           /\ Reads("PWMCNR") = <<>>

C12_Witness ==
    /\ ApplyReturned /\ ret = 0
    /\ CR_EN(loc.cr)
    /\ entry.duty_cycle > 0
    /\ loc.duty_cycles > entry.duty_cycle
    /\ loc.period_us >= 2
    /\ CriticalFifoLevel < MX3_PWMSR_FIFOAV_2WORDS
    /\ Len(Writes("PWMSAR")) = 1

\* the positions in acc of the writes of a register
WriteIdx(reg) == {i \in 1..Len(acc) : acc[i].k = "w" /\ acc[i].reg = reg}

\* C13: a successful apply writes PWMSAR one to three times, the last time
\* with the new duty and before that only with the old cached duty; these
\* writes precede the single PWMPR write, which precedes the final PWMCR
\* write, the only write that can set the enable bit.
C13_WriteOrdering ==
    (ApplyReturned /\ ret = 0) =>
        /\ Len(Writes("PWMSAR")) \in 1..3
        /\ Writes("PWMSAR")[Len(Writes("PWMSAR"))].v = loc.duty_cycles
        /\ \A i \in 1..(Len(Writes("PWMSAR")) - 1) :
              Writes("PWMSAR")[i].v = entry.duty_cycle
        /\ Cardinality(WriteIdx("PWMPR")) = 1
        /\ \A i \in WriteIdx("PWMSAR") : \A j \in WriteIdx("PWMPR") : i < j
        /\ \A j \in WriteIdx("PWMPR") : j = Len(acc) - 1
        /\ Len(acc) \in WriteIdx("PWMCR")
        /\ acc[Len(acc)].v = ControlWord(loc.prescale, loc.polarity, loc.enabled)
        /\ \A i \in WriteIdx("PWMCR") : i < Len(acc) => ~CR_EN(acc[i].v)

C13_Witness ==
    /\ ApplyReturned /\ ret = 0
    /\ Len(Writes("PWMSAR")) = 3
    /\ Writes("PWMSAR")[1].v = entry.duty_cycle
    /\ Writes("PWMSAR")[2].v = entry.duty_cycle
    /\ Writes("PWMSAR")[3].v < entry.duty_cycle
    /\ CR_EN(acc[Len(acc)].v)

\* the positions in acc of the accesses made with interrupts disabled
MaskedIdx == {i \in 1..Len(acc) : acc[i].irq}

\* C14: the FIFO level read, the counter read, the guard writes and the
\* write of the new duty are made in one section with interrupts disabled,
\* nothing else is, and interrupts are enabled again before PWMPR is written.
C14_CriticalSection ==
    /\ irq_off <=> pc \in {"erratum", "write_new"}
    /\ (ApplyReturned /\ ret = 0) =>
          /\ MaskedIdx # {}
          /\ \A i \in MaskedIdx : \A j \in MaskedIdx : \A m \in i..j : m \in MaskedIdx
          /\ LET first == CHOOSE i \in MaskedIdx : \A j \in MaskedIdx : i <= j
                 last  == CHOOSE i \in MaskedIdx : \A j \in MaskedIdx : j <= i
             IN /\ acc[first].k = "r" /\ acc[first].reg = "PWMSR"
                /\ acc[last].k = "w" /\ acc[last].reg = "PWMSAR"
                /\ acc[last].v = loc.duty_cycles
                /\ \A j \in WriteIdx("PWMPR") : j = last + 1
          /\ \A i \in 1..Len(acc) :
                (acc[i].reg \in {"PWMCNR", "PWMSAR"}) => acc[i].irq
          /\ \A i \in 1..Len(acc) :
                (acc[i].reg \in {"PWMPR", "PWMCR"}) => ~acc[i].irq

C14_Witness ==
    /\ ApplyReturned /\ ret = 0
    /\ ~irq_off
    /\ Len(Reads("PWMCNR")) = 1 /\ Reads("PWMCNR")[1].irq
    /\ Len(Writes("PWMSAR")) = 2
    /\ Cardinality(MaskedIdx) = 4

\* C15: after a successful apply the cached duty is the new duty_cycles, the
\* last value that apply wrote to PWMSAR, whichever branch ran; probe, the
\* request, get_state, a failed apply and an apply still in progress leave the cache
\* as it was and, but for the apply in progress, write no sample.
C15_CacheCoherence ==
    /\ (ApplyReturned /\ ret = 0) =>
          /\ duty_cycle = loc.duty_cycles
          /\ Writes("PWMSAR") # <<>>
          /\ Writes("PWMSAR")[Len(Writes("PWMSAR"))].v = duty_cycle
    /\ (GetStateReturned \/ (ApplyReturned /\ ret # 0)) =>
          /\ duty_cycle = entry.duty_cycle
          /\ Writes("PWMSAR") = <<>>
    /\ (op = "apply" /\ pc # "idle") => duty_cycle = entry.duty_cycle
    /\ op \in {"none", "probe", "request"}
          => (duty_cycle = 0 /\ Writes("PWMSAR") = <<>>)

C15_Witness ==
    /\ ApplyReturned /\ ret = 0
    /\ Len(Reads("PWMCNR")) = 1
    /\ Len(Writes("PWMSAR")) = 2
    /\ duty_cycle = loc.duty_cycles
    /\ duty_cycle # entry.duty_cycle

\* C16: on a controller that was already running, the FIFO has a free slot
\* when apply writes the new duty (a guard write into a full FIFO, or guard
\* writes that fill it, leave it full at that point).
C16_FreeSlotAtWrite ==
    (pc = "write_new" /\ entry.pwm_state.enabled) => Len(fifo) < FifoDepth

\* period_cycles as line 216 leaves it, before the division of line 218
RawPeriodCycles == CyclesOf(clkrate, loc.period, BITS_PER_LONG)

\* C17: the prescaler period_cycles_raw / 65536 + 1 brings the period below
\* 65536 counter ticks, and the value written to PWMPR is at most 0xfffe.
C17_PeriodFitsRegister ==
    Applied =>
        /\ loc.prescale = ToInt(U64Shr16(RawPeriodCycles)) + 1
        /\ U64Lt(U64Div(RawPeriodCycles, loc.prescale), U64(65536))
        /\ loc.period_cycles <= MX3_PWMPR_MAX
        /\ PWMPR = loc.period_cycles

C17_Witness ==
    /\ Applied
    /\ RawPeriodCycles = U64(65536)
    /\ loc.prescale = 2
    /\ PWMPR = 32766

\* C18: an apply that reaches the commit writes ran exactly one of
\* wait-for-slot and software reset.  On a controller that was enabled it
\* read PWMSR and never wrote the reset bit; on one that was disabled it
\* enabled the clock and requested the reset, read PWMCR back with the enable
\* bit clear, and therefore wrote PWMSAR once without reading the counter.
C18_ResetOrWait ==
    (ApplyReturned /\ ret = 0) =>
        IF entry.pwm_state.enabled
          THEN /\ Len(SlotReads) \in 1..2
               /\ PollReads = <<>>
               /\ \A i \in WriteIdx("PWMCR") : ~CR_SWR(acc[i].v)
               /\ \A i \in 1..Len(acc) : acc[i].clk = entry.clk_cnt
          ELSE /\ SlotReads = <<>>
               /\ acc[1].k = "w" /\ acc[1].reg = "PWMCR"
               /\ acc[1].v = MX3_PWMCR_SWR
               /\ acc[1].clk = entry.clk_cnt + 1
               /\ Len(PollReads) >= 1
               /\ ~CR_EN(loc.cr)
               /\ Len(Writes("PWMSAR")) = 1
               /\ Reads("PWMCNR") = <<>>

C18_Witness ==
    /\ ApplyReturned /\ ret = 0
    /\ ~entry.pwm_state.enabled
    /\ loc.enabled
    /\ loc.duty_cycles < entry.duty_cycle
    /\ CR_SWR(loc.cr)
    /\ Len(Writes("PWMSAR")) = 1

\* the fields of a control word other than the prescaler
OtherFields(cr) == cr - FIELD_PREP(15, 4, FIELD_GET(15, 4, cr))

\* C19: the prescaler apply encodes into PWMCR is the prescaler get_state
\* decodes from it, and the other fields of the control word are those apply
\* composed.
C19_PrescalerRoundTrip ==
    Applied =>
        /\ MX3_PWMCR_PRESCALER_GET(PWMCR) = loc.prescale
        /\ OtherFields(PWMCR) = OtherFields(ControlWord(1, loc.polarity, loc.enabled))

====
